---- MODULE Spec2Model ----
(***************************************************************************)
(* Calendar booking and stake resolution module                            *)
(* (src/src/handlers/execute.rs, src/src/handlers/instantiate.rs).         *)
(*                                                                         *)
(* The persisted state is the Configuration (CONFIG), the admin of the app *)
(* and the map CALENDAR from a day key to the list of that day's Meetings. *)
(* Every handler is a pure function of (storage, block time, message); a   *)
(* handler that returns Err leaves storage as it was, because the host     *)
(* discards the writes of a failed transaction and the handlers only write *)
(* with their final save.                                                  *)
(***************************************************************************)
EXTENDS Integers, Sequences, FiniteSets, TLC

VARIABLES config, admin, calendar, now, last, resolved, ledger

vars == <<config, admin, calendar, now, last, resolved, ledger>>

(***************************************************************************)
(* Bounds of the model.                                                    *)
(***************************************************************************)
\* minutes between the daily start and the daily end of the configured window
WindowMinutes == 3
\* largest price_per_minute the authority configures
MaxPrice == 1
\* largest number of Meetings the model books into one Day Bucket
MaxMeetings == 2

(***************************************************************************)
(* Time arithmetic of chrono with a FixedOffset time zone.                 *)
(***************************************************************************)
SecondsPerMinute == 60
SecondsPerHour == 60 * SecondsPerMinute
SecondsPerDay == 24 * SecondsPerHour

\* DateTime<FixedOffset>::date_naive(): the local calendar date, as the number
\* of days since 1970-01-01 (floor division, also for negative instants)
date_naive(timezone, timestamp) == (timestamp + timezone) \div SecondsPerDay

\* DateTime<FixedOffset>::time(): the local time of day, in seconds since
\* local midnight (the nanosecond part is the 0 given to timestamp_opt)
time(timezone, timestamp) == (timestamp + timezone) % SecondsPerDay

\* (a seconds field that is never looked at)
second_ignored(naive_time) == 0

\* Timelike::second() of a NaiveTime
second(naive_time) == naive_time % SecondsPerMinute

\* Duration::num_minutes() of a difference of two NaiveTimes (truncating)
num_minutes(seconds) ==
    IF seconds >= 0 THEN seconds \div SecondsPerMinute
    ELSE -((-seconds) \div SecondsPerMinute)

\* impl From<Time> for NaiveTime: NaiveTime::from_hms_opt(hour, minute, 0)
NaiveTimeFromTime(t) == t.hour * SecondsPerHour + t.minute * SecondsPerMinute

\* get_date_time: timezone.timestamp_opt(timestamp, 0).  A FixedOffset maps
\* every instant to exactly one local time, so the result is Single for every
\* instant chrono can represent (about +-8.2e12 s, beyond the integers used
\* here); InvalidTime is the answer outside that range.
get_date_time(timezone, timestamp) ==
    [ ok        |-> timestamp \in Int,
      date      |-> date_naive(timezone, timestamp),
      time      |-> time(timezone, timestamp),
      timestamp |-> timestamp ]

\* date_naive().and_time(NaiveTime::default()).timestamp(): the NaiveDateTime
\* of local midnight read as seconds since the epoch (no offset is applied)
start_of_day(datetime) == datetime.date * SecondsPerDay

(***************************************************************************)
(* Payment attached to a message: info.funds is a list of coins.           *)
(***************************************************************************)
Coin(amount, denom) == [amount |-> amount, denom |-> denom]

\* (a payment check that lets a coin of amount zero through)
must_pay_or_zero(funds, denom) ==
    IF Len(funds) = 0 THEN [err |-> "NoFunds", amount |-> 0]
    ELSE IF Len(funds) > 1 THEN [err |-> "MultipleDenoms", amount |-> 0]
    ELSE IF funds[1].denom # denom THEN [err |-> "MissingDenom", amount |-> 0]
    ELSE [err |-> "Ok", amount |-> funds[1].amount]

\* cw_utils::must_pay(&info, &denom): exactly one coin, non-zero, of denom
must_pay(funds, denom) ==
    IF Len(funds) = 0 THEN [err |-> "NoFunds", amount |-> 0]
    ELSE IF Len(funds) > 1 THEN [err |-> "MultipleDenoms", amount |-> 0]
    ELSE IF funds[1].amount = 0 THEN [err |-> "NoFunds", amount |-> 0]
    ELSE IF funds[1].denom # denom THEN [err |-> "MissingDenom", amount |-> 0]
    ELSE [err |-> "Ok", amount |-> funds[1].amount]

(***************************************************************************)
(* Storage helpers.                                                        *)
(***************************************************************************)
Meeting(start_time, end_time, requester, amount_staked) ==
    [ start_time    |-> start_time,
      end_time      |-> end_time,
      requester     |-> requester,
      amount_staked |-> amount_staked ]

\* CALENDAR.may_load(..).unwrap_or_default()
load_or_default(cal, key) == IF key \in DOMAIN cal THEN cal[key] ELSE <<>>

\* CALENDAR.save(storage, key, &meetings)
save(cal, key, meetings) ==
    [k \in (DOMAIN cal) \cup {key} |-> IF k = key THEN meetings ELSE cal[k]]

\* the result of a handler: the error kind ("Ok" for success), the storage
\* after the call and the bank messages of the response
Result(err, cfg, cal, msgs, expected) ==
    [ err             |-> err,
      config          |-> cfg,
      calendar        |-> cal,
      msgs            |-> msgs,
      expected_amount |-> expected ]

Err(err, cfg, cal) == Result(err, cfg, cal, <<>>, 0)

(***************************************************************************)
(* request_meeting (Calendar Engine).                                      *)
(***************************************************************************)
\* the loop over existing_meetings: a collision with the requested interval
start_time_conflicts(meeting, meeting_start_timestamp) ==
    /\ meeting.start_time <= meeting_start_timestamp
    /\ meeting_start_timestamp < meeting.end_time

\* (an end test that lets a request end together with a stored Meeting)
end_time_conflicts_before_end(meeting, meeting_end_timestamp) ==
    /\ meeting.start_time < meeting_end_timestamp
    /\ meeting_end_timestamp < meeting.end_time

end_time_conflicts(meeting, meeting_end_timestamp) ==
    /\ meeting.start_time < meeting_end_timestamp
    /\ meeting_end_timestamp <= meeting.end_time

\* (a loop that stops after the first Meeting of the bucket)
has_conflict_first_only(existing_meetings, meeting_start_timestamp, meeting_end_timestamp) ==
    /\ Len(existing_meetings) > 0
    /\ \/ start_time_conflicts(existing_meetings[1], meeting_start_timestamp)
       \/ end_time_conflicts(existing_meetings[1], meeting_end_timestamp)

has_conflict(existing_meetings, meeting_start_timestamp, meeting_end_timestamp) ==
    \E i \in 1..Len(existing_meetings) :
        \/ start_time_conflicts(existing_meetings[i], meeting_start_timestamp)
        \/ end_time_conflicts(existing_meetings[i], meeting_end_timestamp)

\* (a future test that rejects a start at the block time itself)
start_in_past_or_now(block_time, meeting_start_timestamp) ==
    block_time >= meeting_start_timestamp

\* the comparison of the block time with the start of the meeting
start_in_past(block_time, meeting_start_timestamp) ==
    block_time > meeting_start_timestamp

\* (a window that is open at its end)
outside_calendar_bounds_open_end(naive_time, calendar_start_time, calendar_end_time) ==
    naive_time < calendar_start_time \/ naive_time >= calendar_end_time

\* the comparisons of a local time of day with the daily window
outside_calendar_bounds(naive_time, calendar_start_time, calendar_end_time) ==
    naive_time < calendar_start_time \/ naive_time > calendar_end_time

\* duration_in_minutes * config.price_per_minute
expected_amount(meeting_start_time, meeting_end_time, price_per_minute) ==
    num_minutes(meeting_end_time - meeting_start_time) * price_per_minute

\* (a payment check that only rejects underpayment)
amount_mismatch_underpaid(amount_sent, expected) == amount_sent < expected

\* the comparison of the amount sent with the expected amount
amount_mismatch(amount_sent, expected) == amount_sent # expected

\* (a list that takes the new meeting in front of the others)
push_front(existing_meetings, meeting) == <<meeting>> \o existing_meetings

\* existing_meetings.push(meeting)
push(existing_meetings, meeting) == Append(existing_meetings, meeting)

request_meeting(cfg, cal, block_time, sender, funds, start, end) ==
    LET paid == must_pay(funds, cfg.denom)
        timezone == cfg.utc_offset
        meeting_start_datetime == get_date_time(timezone, start)
        meeting_end_datetime == get_date_time(timezone, end)
        meeting_start_time == meeting_start_datetime.time
        meeting_end_time == meeting_end_datetime.time
        calendar_start_time == NaiveTimeFromTime(cfg.start_time)
        calendar_end_time == NaiveTimeFromTime(cfg.end_time)
        meeting_start_timestamp == meeting_start_datetime.timestamp
        meeting_end_timestamp == meeting_end_datetime.timestamp
        expected == expected_amount(meeting_start_time, meeting_end_time,
                                    cfg.price_per_minute)
        start_of_day_timestamp == start_of_day(meeting_start_datetime)
        existing_meetings == load_or_default(cal, start_of_day_timestamp)
    IN  IF paid.err # "Ok" THEN Err(paid.err, cfg, cal)
        ELSE IF ~meeting_start_datetime.ok \/ ~meeting_end_datetime.ok
            THEN Err("InvalidTime", cfg, cal)
        ELSE IF meeting_start_datetime.date # meeting_end_datetime.date
            THEN Err("StartAndEndTimeNotOnSameDay", cfg, cal)
        ELSE IF second(meeting_start_time) # 0
            THEN Err("StartTimeNotRoundedToNearestMinute", cfg, cal)
        ELSE IF second(meeting_end_time) # 0
            THEN Err("EndTimeNotRoundedToNearestMinute", cfg, cal)
        ELSE IF start_in_past(block_time, meeting_start_timestamp)
            THEN Err("StartTimeMustBeInFuture", cfg, cal)
        ELSE IF meeting_start_time >= meeting_end_time
            THEN Err("EndTimeMustBeAfterStartTime", cfg, cal)
        ELSE IF outside_calendar_bounds(meeting_start_time, calendar_start_time,
                                        calendar_end_time)
            THEN Err("StartTimeDoesNotFallWithinCalendarBounds", cfg, cal)
        ELSE IF outside_calendar_bounds(meeting_end_time, calendar_start_time,
                                        calendar_end_time)
            THEN Err("EndTimeDoesNotFallWithinCalendarBounds", cfg, cal)
        ELSE IF amount_mismatch(paid.amount, expected)
            THEN Result("InvalidStakeAmountSent", cfg, cal, <<>>, expected)
        ELSE IF has_conflict(existing_meetings, meeting_start_timestamp,
                             meeting_end_timestamp)
            THEN Err("MeetingConflictExists", cfg, cal)
        ELSE Result("Ok", cfg,
                    save(cal, start_of_day_timestamp,
                         push(existing_meetings,
                              Meeting(meeting_start_timestamp,
                                      meeting_end_timestamp,
                                      sender, paid.amount))),
                    <<>>, 0)

(***************************************************************************)
(* handle_stake (Stake Resolver).                                          *)
(***************************************************************************)
Return == [kind |-> "Return", minutes_late |-> 0]
FullSlash == [kind |-> "FullSlash", minutes_late |-> 0]
PartialSlash(minutes_late) == [kind |-> "PartialSlash", minutes_late |-> minutes_late]

\* BankMsg::Send { to_address, amount: vec![Coin::new(amount, denom)] }
BankSend(to_address, amount, denom) ==
    [to_address |-> to_address, amount |-> amount, denom |-> denom]

\* (a handler that forgets the admin check)
assert_admin_anyone(adm, sender) == TRUE

\* app.admin.assert_admin(deps, &info.sender)
assert_admin(adm, sender) == sender = adm

\* (a settlement test that lets the end instant itself through)
not_finished_strict(block_time, meeting_end_time) == block_time < meeting_end_time

\* the comparison of the block time with the end of the meeting
not_finished(block_time, meeting_end_time) == block_time <= meeting_end_time

\* ((meeting.end_time - meeting.start_time) / 60) as u32
meeting_duration_in_minutes(meeting) ==
    (meeting.end_time - meeting.start_time) \div SecondsPerMinute

\* (a ratio that forgets the denominator)
multiply_ratio_undivided(amount, numerator, denominator) == amount * numerator

\* Uint128::multiply_ratio(numerator, denominator): floor(a * n / d)
multiply_ratio(amount, numerator, denominator) ==
    (amount * numerator) \div denominator

\* (a guard that also refuses a requester late for the whole meeting)
too_late_or_whole(minutes_late, duration) == minutes_late >= duration

\* the guard of the PartialSlash arm
too_late(minutes_late, duration) == minutes_late > duration

\* (a resolver that forgets to zero the stake)
resolved_stake_kept(amount_staked) == amount_staked

\* the stake written back into the meeting before the messages are built
resolved_stake(amount_staked) == 0

\* (a resolver that saves the bucket before the arm can fail)
unsaved_but_saved(cal, zeroed_cal) == zeroed_cal

\* an early return after the meeting was zeroed: the change was made to the
\* loaded copy of the bucket and CALENDAR.save is not reached
unsaved(cal, zeroed_cal) == cal

\* (a resolver that confuses the two recipients)
payee_swapped(stake_action, requester, adm) ==
    IF stake_action.kind = "Return" THEN adm ELSE requester

\* the to_address of the Return arm and of the FullSlash arm
payee(stake_action, requester, adm) ==
    IF stake_action.kind = "Return" THEN requester ELSE adm

\* (a partial slash that refunds the whole stake)
refund_whole(amount_staked, amount_to_slash) == amount_staked

\* amount_staked - amount_to_slash, the coin sent back to the requester
refund(amount_staked, amount_to_slash) == amount_staked - amount_to_slash

handle_stake(cfg, adm, cal, block_time, sender, day_datetime, meeting_index, stake_action) ==
    IF ~assert_admin(adm, sender) THEN Err("Unauthorized", cfg, cal)
    ELSE IF day_datetime \notin DOMAIN cal
        THEN Err("NoMeetingsAtGivenDayDateTime", cfg, cal)
    ELSE IF meeting_index >= Len(cal[day_datetime])
        THEN Err("MeetingDoesNotExist", cfg, cal)
    ELSE
    LET meetings == cal[day_datetime]
        meeting == meetings[meeting_index + 1]
        amount_staked == meeting.amount_staked
        requester == meeting.requester
        zeroed == [meetings EXCEPT
                     ![meeting_index + 1].amount_staked =
                         resolved_stake(amount_staked)]
        saved == save(cal, day_datetime, zeroed)
        duration == meeting_duration_in_minutes(meeting)
        amount_to_slash ==
            multiply_ratio(amount_staked, stake_action.minutes_late, duration)
    IN  IF not_finished(block_time, meeting.end_time)
            THEN Err("MeetingNotFinishedYet", cfg, cal)
        ELSE IF amount_staked = 0 THEN Err("StakeAlreadyHandled", cfg, cal)
        ELSE IF stake_action.kind \in {"Return", "FullSlash"}
            THEN Result("Ok", cfg, saved,
                        <<BankSend(payee(stake_action, requester, adm),
                                   amount_staked, cfg.denom)>>, 0)
        ELSE IF too_late(stake_action.minutes_late, duration)
            THEN Err("MinutesLateCannotExceedDurationOfMeeting", cfg,
                     unsaved(cal, saved))
        ELSE IF duration = 0 THEN Err("DivideByZero", cfg, unsaved(cal, saved))
        ELSE Result("Ok", cfg, saved,
                    << BankSend(requester,
                                refund(amount_staked, amount_to_slash),
                                cfg.denom),
                       BankSend(adm, amount_to_slash, cfg.denom) >>, 0)

(***************************************************************************)
(* update_config.                                                          *)
(***************************************************************************)
\* Option<T>
None == <<>>
Some(v) == <<v>>

\* the name service of the host: what each asset entry resolves to
AnsHost ==
    [ entry \in {"juno>juno", "noble>usdc", "juno>dao", "unknown"} |->
        CASE entry = "juno>juno"  -> [found |-> TRUE, native |-> TRUE, denom |-> "ujuno"]
          [] entry = "noble>usdc" -> [found |-> TRUE, native |-> TRUE, denom |-> "uusdc"]
          [] entry = "juno>dao"   -> [found |-> TRUE, native |-> FALSE, denom |-> "juno1dao"]
          [] OTHER                -> [found |-> FALSE, native |-> FALSE, denom |-> ""] ]

resolve_native_ans_denom(entry) ==
    IF ~AnsHost[entry].found THEN [err |-> "AnsHostError", denom |-> ""]
    ELSE IF ~AnsHost[entry].native THEN [err |-> "NonNativeDenom", denom |-> ""]
    ELSE [err |-> "Ok", denom |-> AnsHost[entry].denom]

update_config(cfg, adm, cal, sender, price_per_minute, denom) ==
    LET priced == IF price_per_minute # None
                      THEN [cfg EXCEPT !.price_per_minute = price_per_minute[1]]
                      ELSE cfg
        resolution == resolve_native_ans_denom(denom[1])
    IN  IF ~assert_admin(adm, sender) THEN Err("Unauthorized", cfg, cal)
        ELSE IF denom = None THEN Result("Ok", priced, cal, <<>>, 0)
        ELSE IF resolution.err # "Ok" THEN Err(resolution.err, cfg, cal)
        ELSE Result("Ok", [priced EXCEPT !.denom = resolution.denom], cal, <<>>, 0)

(***************************************************************************)
(* instantiate_handler.                                                    *)
(***************************************************************************)
Time(hour, minute) == [hour |-> hour, minute |-> minute]

\* Response::new(): no tag, no attribute, no message
ResponseNew == [tag |-> "", msgs |-> <<>>]

\* the Config that instantiate_handler saves has the four fields of the
\* message and nothing else
instantiate_handler(sender, msg) ==
    [ config   |-> [ price_per_minute |-> msg.price_per_minute,
                     utc_offset       |-> msg.utc_offset,
                     start_time       |-> msg.start_time,
                     end_time         |-> msg.end_time ],
      admin    |-> sender,
      response |-> ResponseNew ]

\* the Configuration as the execute handlers load it: what instantiate_handler
\* saved together with the currency unit.  The handler of the instantiation
\* does not write the unit and the declaration of Config is not among the
\* sources, so the unit a calendar starts with is any unit.
ConfigWithDenom(saved, denom) ==
    [ price_per_minute |-> saved.price_per_minute,
      utc_offset       |-> saved.utc_offset,
      start_time       |-> saved.start_time,
      end_time         |-> saved.end_time,
      denom            |-> denom ]

(***************************************************************************)
(* The inputs of the model.                                                *)
(***************************************************************************)
Addresses == {"admin", "alice"}
Denoms == {"ujuno", "uusdc"}
AssetEntries == DOMAIN AnsHost
\* the calendar is kept at UTC+10:00
UtcOffsets == {10 * SecondsPerHour}
Prices == 0..MaxPrice

\* the daily window 09:00 .. 09:00 + WindowMinutes
DailyStart == Time(9, 0)
DailyEnd == Time(9, WindowMinutes)

InstantiateMsgs ==
    [ price_per_minute : Prices,
      utc_offset       : UtcOffsets,
      start_time       : {DailyStart},
      end_time         : {DailyEnd} ]

\* the instant of a local time of day on the day-th day after the epoch
Instant(day, naive_time, utc_offset) ==
    day * SecondsPerDay + naive_time - utc_offset

\* local times of day around the window: a minute before it, every minute of
\* it, a minute after it, and one that is not on a minute boundary
InputTimesOfDay ==
    LET open == NaiveTimeFromTime(DailyStart)
    IN  {open - SecondsPerMinute, open + SecondsPerMinute \div 2}
          \cup {open + m * SecondsPerMinute : m \in 0..(WindowMinutes + 1)}

\* the instants a request names: the times above on the first day, and the
\* opening time of the next day
InputInstants(utc_offset) ==
    {Instant(1, t, utc_offset) : t \in InputTimesOfDay}
      \cup {Instant(2, NaiveTimeFromTime(DailyStart), utc_offset)}

\* the slots a request names: a start and an end that is not before it
InputSlots(utc_offset) ==
    {slot \in InputInstants(utc_offset) \X InputInstants(utc_offset) :
        slot[1] <= slot[2]}

\* the largest amount a caller attaches: one more than the dearest meeting
MaxAmount == WindowMinutes * MaxPrice + 1

\* nothing, two coins, every amount of ujuno and one amount of uusdc
InputFunds ==
    {<<>>, <<Coin(1, "ujuno"), Coin(1, "uusdc")>>, <<Coin(MaxPrice, "uusdc")>>}
      \cup {<<Coin(a, "ujuno")>> : a \in 0..MaxAmount}

\* the day keys a resolution names
InputDayKeys == {d * SecondsPerDay : d \in 1..2}
InputIndices == 0..MaxMeetings
InputActions ==
    {Return, FullSlash} \cup {PartialSlash(m) : m \in 0..(WindowMinutes + 1)}

\* the block times: a minute before the window opens on the first day, its
\* opening, two minutes into it and the second after its end
BlockTimes(utc_offset) ==
    LET open == NaiveTimeFromTime(DailyStart)
        close == NaiveTimeFromTime(DailyEnd)
    IN  {Instant(1, t, utc_offset) :
            t \in {open - SecondsPerMinute, open, open + 2 * SecondsPerMinute,
                   close + 1}}

\* the messages of the model, as records of the arguments of the handlers
RequestMeetingMsgs ==
    [ sender : Addresses,
      funds  : InputFunds,
      slot   : InputSlots(config.utc_offset) ]

ResolveStakeMsgs ==
    [ sender        : Addresses,
      day_datetime  : InputDayKeys,
      meeting_index : InputIndices,
      stake_action  : InputActions ]

UpdateConfigMsgs ==
    [ sender           : Addresses,
      price_per_minute : {None} \cup {Some(p) : p \in Prices},
      denom            : {None} \cup {Some(e) : e \in AssetEntries} ]

(***************************************************************************)
(* execute_handler: the handlers applied to the current state.             *)
(***************************************************************************)
RequestMeetingResult(msg) ==
    request_meeting(config, calendar, now, msg.sender, msg.funds,
                    msg.slot[1], msg.slot[2])

ResolveStakeResult(msg) ==
    handle_stake(config, admin, calendar, now, msg.sender, msg.day_datetime,
                 msg.meeting_index, msg.stake_action)

UpdateConfigResult(msg) ==
    update_config(config, admin, calendar, msg.sender, msg.price_per_minute,
                  msg.denom)

(***************************************************************************)
(* The state machine.  A message whose handler returns Err is a failed     *)
(* transaction: the host discards it, so it is not a step; `last` is the   *)
(* response of the last transaction that was committed.                    *)
(***************************************************************************)
Response(tag, r) == [tag |-> tag, msgs |-> r.msgs]

\* the (day key, index) of every stored Meeting
Slots(cal) == UNION {{<<k, i - 1>> : i \in 1..Len(cal[k])} : k \in DOMAIN cal}
MeetingAt(cal, slot) == cal[slot[1]][slot[2] + 1]

\* the sum of the amounts of the bank messages of a response
RECURSIVE TotalSent(_)
TotalSent(msgs) ==
    IF msgs = <<>> THEN 0 ELSE msgs[1].amount + TotalSent(Tail(msgs))

\* the books of the bank, kept beside the contract: for every slot the coin
\* that came in with the accepted request and the amount sent out for it
Escrowed(ldg, slot, coin) ==
    [s \in DOMAIN ldg \cup {slot} |->
        IF s = slot THEN [paid |-> coin.amount, denom |-> coin.denom, paid_out |-> 0]
        ELSE ldg[s]]

PaidOut(ldg, slot, msgs) ==
    [ldg EXCEPT ![slot].paid_out = @ + TotalSent(msgs)]

Init ==
    /\ \E msg \in InstantiateMsgs :
         LET s == instantiate_handler("admin", msg)
         IN  /\ \E denom \in Denoms : config = ConfigWithDenom(s.config, denom)
             /\ admin = s.admin
             /\ last = s.response
             /\ now = Instant(1, NaiveTimeFromTime(DailyStart) - SecondsPerMinute,
                              msg.utc_offset)
    /\ calendar = <<>>
    /\ resolved = {}
    /\ ledger = <<>>

Commit(tag, r) ==
    /\ r.err = "Ok"
    /\ config' = r.config
    /\ calendar' = r.calendar
    /\ last' = Response(tag, r)
    /\ UNCHANGED <<admin, now>>

\* the slots (day key, index) on which a resolution has succeeded
Resolve(tag, msg) ==
    /\ Commit(tag, ResolveStakeResult(msg))
    /\ resolved' = resolved \cup {<<msg.day_datetime, msg.meeting_index>>}
    /\ ledger' = PaidOut(ledger, <<msg.day_datetime, msg.meeting_index>>,
                         ResolveStakeResult(msg).msgs)

RequestMeeting ==
    \E msg \in RequestMeetingMsgs :
        LET r == RequestMeetingResult(msg)
        IN  /\ \A k \in DOMAIN r.calendar : Len(r.calendar[k]) <= MaxMeetings
            /\ Commit("request_meeting", r)
            /\ ledger' = Escrowed(ledger,
                                  CHOOSE slot \in Slots(r.calendar) :
                                      slot \notin Slots(calendar),
                                  msg.funds[1])
            /\ UNCHANGED resolved

ReturnStake ==
    \E msg \in ResolveStakeMsgs :
        /\ msg.stake_action.kind = "Return"
        /\ Resolve("return_stake", msg)

SlashFullStake ==
    \E msg \in ResolveStakeMsgs :
        /\ msg.stake_action.kind = "FullSlash"
        /\ Resolve("full_slash", msg)

SlashPartialStake ==
    \E msg \in ResolveStakeMsgs :
        /\ msg.stake_action.kind = "PartialSlash"
        /\ Resolve("partial_slash", msg)

UpdateConfig ==
    \E msg \in UpdateConfigMsgs :
        /\ Commit("update_config", UpdateConfigResult(msg))
        /\ UNCHANGED <<resolved, ledger>>

\* a later block
Tick ==
    /\ \E t \in BlockTimes(config.utc_offset) : t > now /\ now' = t
    /\ UNCHANGED <<config, admin, calendar, last, resolved, ledger>>

Next ==
    \/ RequestMeeting
    \/ ReturnStake
    \/ SlashFullStake
    \/ SlashPartialStake
    \/ UpdateConfig
    \/ Tick

Spec == Init /\ [][Next]_vars

(***************************************************************************)
(* The vocabulary of the properties: local time under the configured       *)
(* offset, the daily window, the payment, the Meetings of the calendar.    *)
(***************************************************************************)
LocalSeconds(instant) == instant + config.utc_offset
LocalDay(instant) == LocalSeconds(instant) \div (24 * 60 * 60)
TimeOfDay(instant) == LocalSeconds(instant) % (24 * 60 * 60)
DailyStartTime == (config.start_time.hour * 60 + config.start_time.minute) * 60
DailyEndTime == (config.end_time.hour * 60 + config.end_time.minute) * 60
DurationMinutes(start_time, end_time) ==
    (TimeOfDay(end_time) - TimeOfDay(start_time)) \div 60

\* every time validation of request_meeting, in the words of the specification
PassesTimeValidation(start_time, end_time) ==
    /\ LocalDay(start_time) = LocalDay(end_time)
    /\ TimeOfDay(start_time) % 60 = 0
    /\ TimeOfDay(end_time) % 60 = 0
    /\ now <= start_time
    /\ TimeOfDay(start_time) < TimeOfDay(end_time)
    /\ DailyStartTime <= TimeOfDay(start_time)
    /\ TimeOfDay(start_time) <= DailyEndTime
    /\ DailyStartTime <= TimeOfDay(end_time)
    /\ TimeOfDay(end_time) <= DailyEndTime

\* the payment is one coin of the configured currency unit, not zero
IsPayment(funds) ==
    Len(funds) = 1 /\ funds[1].denom = config.denom /\ funds[1].amount > 0

\* the amount of the configured currency unit attached to a message
AmountPaid(funds) ==
    LET idx == {i \in 1..Len(funds) : funds[i].denom = config.denom}
    IN  IF idx = {} THEN 0 ELSE funds[CHOOSE i \in idx : TRUE].amount

Overlap(a, b) == ~(a.end_time <= b.start_time \/ b.end_time <= a.start_time)

ResolveTags == {"return_stake", "full_slash", "partial_slash"}

(***************************************************************************)
(* C1.  No two Meetings of one Day Bucket overlap as half-open intervals   *)
(* [start_time, end_time).  The collision test of request_meeting looks    *)
(* at the two ends of the requested interval only, so a request whose      *)
(* interval strictly contains a stored Meeting is accepted.                *)
(***************************************************************************)
C1_NoOverlapInBucket ==
    \A k \in DOMAIN calendar :
        \A i, j \in 1..Len(calendar[k]) :
            i # j => ~Overlap(calendar[k][i], calendar[k][j])

(***************************************************************************)
(* C2.  Resolution is exactly-once: once a resolution of a slot has        *)
(* succeeded, every later resolution of that slot by the authority, with   *)
(* any action and any minutes_late, fails with StakeAlreadyHandled, emits  *)
(* no payout instruction and changes nothing.                              *)
(***************************************************************************)
C2_ExactlyOnce ==
    \A slot \in resolved :
        \A stake_action \in InputActions \cup {PartialSlash(24 * 60)} :
            LET r == handle_stake(config, admin, calendar, now, admin,
                                  slot[1], slot[2], stake_action)
            IN  /\ r.err = "StakeAlreadyHandled"
                /\ r.msgs = <<>>
                /\ r.calendar = calendar

\* a slot has been resolved, and a partial slash of it with more minutes
\* than the Meeting lasts is answered StakeAlreadyHandled
C2_Witness ==
    /\ last.tag \in ResolveTags
    /\ \E msg \in ResolveStakeMsgs :
        /\ msg.sender = admin
        /\ <<msg.day_datetime, msg.meeting_index>> \in resolved
        /\ msg.stake_action.kind = "PartialSlash"
        /\ msg.stake_action.minutes_late * 60 >
             MeetingAt(calendar, <<msg.day_datetime, msg.meeting_index>>).end_time
             - MeetingAt(calendar, <<msg.day_datetime, msg.meeting_index>>).start_time
        /\ ResolveStakeResult(msg).err = "StakeAlreadyHandled"

(***************************************************************************)
(* C3.  The payment check is exact.  As claimed: a request that passes     *)
(* every time validation and whose amount paid differs from                *)
(* duration_minutes * price_per_minute is rejected with                    *)
(* InvalidStakeAmountSent carrying the expected amount, and stores         *)
(* nothing.                                                                *)
(***************************************************************************)
C3_AsClaimed ==
    \A msg \in RequestMeetingMsgs :
        LET r == RequestMeetingResult(msg)
            expected == DurationMinutes(msg.slot[1], msg.slot[2])
                          * config.price_per_minute
        IN  (/\ PassesTimeValidation(msg.slot[1], msg.slot[2])
             /\ AmountPaid(msg.funds) # expected)
            => /\ r.err = "InvalidStakeAmountSent"
               /\ r.expected_amount = expected
               /\ r.calendar = calendar

\* C3, amended.  A request that passes every time validation and whose
\* amount paid differs from duration_minutes * price_per_minute is rejected
\* and stores nothing: with InvalidStakeAmountSent carrying the expected
\* amount when the payment is one non-zero coin of the configured unit, and
\* with a payment error (NoFunds, MissingDenom, MultipleDenoms) otherwise.
\* Every Meeting that is stored has amount_staked equal to
\* duration_minutes * price_per_minute at the price of that moment.
C3_PaymentExact ==
    \A msg \in RequestMeetingMsgs :
        LET r == RequestMeetingResult(msg)
            expected == DurationMinutes(msg.slot[1], msg.slot[2])
                          * config.price_per_minute
            key == LocalDay(msg.slot[1]) * (24 * 60 * 60)
        IN  /\ (/\ PassesTimeValidation(msg.slot[1], msg.slot[2])
                /\ AmountPaid(msg.funds) # expected)
               => /\ r.calendar = calendar
                  /\ IF IsPayment(msg.funds)
                       THEN /\ r.err = "InvalidStakeAmountSent"
                            /\ r.expected_amount = expected
                       ELSE r.err \in {"NoFunds", "MissingDenom", "MultipleDenoms"}
            /\ r.err = "Ok"
               => /\ key \in DOMAIN r.calendar
                  /\ r.calendar[key][Len(r.calendar[key])].amount_staked = expected
                  /\ AmountPaid(msg.funds) = expected

\* a request has just been accepted, and in this state an underpaid and an
\* overpaid request for one slot are both answered InvalidStakeAmountSent
C3_Witness ==
    /\ last.tag = "request_meeting"
    /\ \E lo, hi \in RequestMeetingMsgs :
         /\ lo.slot = hi.slot
         /\ PassesTimeValidation(lo.slot[1], lo.slot[2])
         /\ AmountPaid(lo.funds) < DurationMinutes(lo.slot[1], lo.slot[2])
                                     * config.price_per_minute
         /\ AmountPaid(hi.funds) > DurationMinutes(hi.slot[1], hi.slot[2])
                                     * config.price_per_minute
         /\ RequestMeetingResult(lo).err = "InvalidStakeAmountSent"
         /\ RequestMeetingResult(hi).err = "InvalidStakeAmountSent"

(***************************************************************************)
(* C4.  PartialSlash conserves the stake: for a settled Meeting with a     *)
(* non-zero stake and minutes_late in [0, duration_minutes], the authority *)
(* resolving with PartialSlash gets exactly two payout instructions, the   *)
(* first to the requester and the second to the authority, neither         *)
(* negative, that add up to the stake held before the call.                *)
(***************************************************************************)
C4_PartialSlashConserves ==
    \A msg \in ResolveStakeMsgs :
        LET slot == <<msg.day_datetime, msg.meeting_index>>
            m == MeetingAt(calendar, slot)
            r == ResolveStakeResult(msg)
        IN  (/\ msg.sender = admin
             /\ msg.stake_action.kind = "PartialSlash"
             /\ slot \in Slots(calendar)
             /\ m.amount_staked > 0
             /\ now > m.end_time
             /\ msg.stake_action.minutes_late * 60 <= m.end_time - m.start_time)
            => /\ r.err = "Ok"
               /\ Len(r.msgs) = 2
               /\ r.msgs[1].to_address = m.requester
               /\ r.msgs[2].to_address = admin
               /\ r.msgs[1].amount >= 0
               /\ r.msgs[2].amount >= 0
               /\ r.msgs[1].amount + r.msgs[2].amount = m.amount_staked

\* a partial slash has just split a stake into two non-zero parts
C4_Witness ==
    /\ last.tag = "partial_slash"
    /\ Len(last.msgs) = 2
    /\ last.msgs[1].amount > 0
    /\ last.msgs[2].amount > 0

(***************************************************************************)
(* C5.  A resolution succeeds only when now > end_time of the Meeting:     *)
(* with now <= end_time the authority is answered MeetingNotFinishedYet    *)
(* and the stake stays held, with now = end_time + 1 a held stake is       *)
(* resolved; every slot that has been resolved lies strictly in the past.  *)
(***************************************************************************)
C5_OnlyAfterEnd ==
    /\ \A msg \in ResolveStakeMsgs :
        LET slot == <<msg.day_datetime, msg.meeting_index>>
            m == MeetingAt(calendar, slot)
            r == ResolveStakeResult(msg)
        IN  slot \in Slots(calendar)
            => /\ r.err = "Ok" => now > m.end_time
               /\ (msg.sender = admin /\ now <= m.end_time)
                  => /\ r.err = "MeetingNotFinishedYet"
                     /\ r.calendar = calendar
                     /\ r.msgs = <<>>
               /\ (/\ msg.sender = admin
                   /\ now = m.end_time + 1
                   /\ m.amount_staked > 0
                   /\ msg.stake_action.kind \in {"Return", "FullSlash"})
                  => /\ r.err = "Ok"
                     /\ MeetingAt(r.calendar, slot).amount_staked = 0
    /\ \A slot \in resolved :
        /\ slot \in Slots(calendar)
        /\ MeetingAt(calendar, slot).amount_staked = 0
        /\ now > MeetingAt(calendar, slot).end_time

\* a slot has been resolved in the second after its end
C5_Witness ==
    /\ last.tag \in ResolveTags
    /\ \E slot \in resolved : now = MeetingAt(calendar, slot).end_time + 1

(***************************************************************************)
(* C6.  A message that is answered with an error leaves the Configuration  *)
(* and every Day Bucket as they were and emits no payout instruction; a    *)
(* PartialSlash refused with MinutesLateCannotExceedDurationOfMeeting      *)
(* leaves the stake non-zero, and the authority can still resolve it.      *)
(***************************************************************************)
C6_ErrorsChangeNothing ==
    /\ \A msg \in RequestMeetingMsgs :
        LET r == RequestMeetingResult(msg)
        IN  r.err # "Ok"
            => r.config = config /\ r.calendar = calendar /\ r.msgs = <<>>
    /\ \A msg \in UpdateConfigMsgs :
        LET r == UpdateConfigResult(msg)
        IN  r.err # "Ok"
            => r.config = config /\ r.calendar = calendar /\ r.msgs = <<>>
    /\ \A msg \in ResolveStakeMsgs :
        LET r == ResolveStakeResult(msg)
            slot == <<msg.day_datetime, msg.meeting_index>>
        IN  /\ r.err # "Ok"
               => r.config = config /\ r.calendar = calendar /\ r.msgs = <<>>
            /\ r.err = "MinutesLateCannotExceedDurationOfMeeting"
               => /\ MeetingAt(r.calendar, slot).amount_staked > 0
                  /\ handle_stake(r.config, admin, r.calendar, now, admin,
                                  slot[1], slot[2], Return).err = "Ok"

\* a Meeting is booked and settled, and a partial slash of it by more
\* minutes than it lasts is refused
C6_Witness ==
    \E msg \in ResolveStakeMsgs :
        /\ <<msg.day_datetime, msg.meeting_index>> \in Slots(calendar)
        /\ ResolveStakeResult(msg).err = "MinutesLateCannotExceedDurationOfMeeting"

(***************************************************************************)
(* C7.  Only the authority resolves stakes and updates the configuration:  *)
(* from any other caller the three resolutions and update_config are       *)
(* answered Unauthorized whatever else is wrong with the message, change   *)
(* nothing and emit nothing.  request_meeting is open to every caller:     *)
(* its answer does not depend on who sends it.                             *)
(***************************************************************************)
C7_AuthorityOnly ==
    /\ \A msg \in ResolveStakeMsgs :
        LET r == ResolveStakeResult(msg)
        IN  msg.sender # admin
            => /\ r.err = "Unauthorized"
               /\ r.calendar = calendar
               /\ r.config = config
               /\ r.msgs = <<>>
    /\ \A msg \in UpdateConfigMsgs :
        LET r == UpdateConfigResult(msg)
        IN  msg.sender # admin
            => /\ r.err = "Unauthorized"
               /\ r.calendar = calendar
               /\ r.config = config
               /\ r.msgs = <<>>
    /\ \A msg \in RequestMeetingMsgs, other \in Addresses :
        RequestMeetingResult([msg EXCEPT !.sender = other]).err =
            RequestMeetingResult(msg).err

\* a caller who is not the authority holds a settled stake that the
\* authority could return, and that caller's own attempt is Unauthorized
C7_Witness ==
    \E msg \in ResolveStakeMsgs :
        LET slot == <<msg.day_datetime, msg.meeting_index>>
        IN  /\ slot \in Slots(calendar)
            /\ MeetingAt(calendar, slot).requester # admin
            /\ msg.sender = MeetingAt(calendar, slot).requester
            /\ ResolveStakeResult(msg).err = "Unauthorized"
            /\ ResolveStakeResult([msg EXCEPT !.sender = admin]).err = "Ok"

(***************************************************************************)
(* C8.  request_meeting is idempotent-safe: a request for the interval of  *)
(* a stored Meeting, made no later than its start with the payment the     *)
(* present configuration asks for, is answered MeetingConflictExists, and  *)
(* the calendar keeps exactly one Meeting with that interval.              *)
(***************************************************************************)
C8_IdenticalRequestConflicts ==
    \A msg \in RequestMeetingMsgs :
        \A slot \in Slots(calendar) :
            LET m == MeetingAt(calendar, slot)
                r == RequestMeetingResult(msg)
            IN  (/\ msg.slot = <<m.start_time, m.end_time>>
                 /\ now <= m.start_time
                 /\ IsPayment(msg.funds)
                 /\ AmountPaid(msg.funds) =
                      DurationMinutes(m.start_time, m.end_time)
                        * config.price_per_minute)
                => /\ r.err = "MeetingConflictExists"
                   /\ r.calendar = calendar
                   /\ Cardinality({other \in Slots(r.calendar) :
                         /\ MeetingAt(r.calendar, other).start_time = m.start_time
                         /\ MeetingAt(r.calendar, other).end_time = m.end_time}) = 1

\* the request that was just accepted as the second Meeting of its bucket
\* is answered MeetingConflictExists when it is sent again
C8_Witness ==
    /\ last.tag = "request_meeting"
    /\ \E msg \in RequestMeetingMsgs, slot \in Slots(calendar) :
        LET m == MeetingAt(calendar, slot)
        IN  /\ slot[2] > 0
            /\ msg.slot = <<m.start_time, m.end_time>>
            /\ msg.sender = m.requester
            /\ msg.funds = <<Coin(m.amount_staked, config.denom)>>
            /\ RequestMeetingResult(msg).err = "MeetingConflictExists"

(***************************************************************************)
(* C9.  The daily window is inclusive at both ends: an otherwise valid     *)
(* request from daily_start_time to daily_end_time is accepted, one that   *)
(* starts a minute before daily_start_time is answered                     *)
(* StartTimeDoesNotFallWithinCalendarBounds, one that ends a minute after  *)
(* daily_end_time is answered EndTimeDoesNotFallWithinCalendarBounds, and  *)
(* every stored Meeting has                                                *)
(* daily_start_time <= start time of day < end time of day <= daily_end.   *)
(***************************************************************************)
C9_WindowInclusive ==
    /\ \A msg \in RequestMeetingMsgs :
        LET start_time == msg.slot[1]
            end_time == msg.slot[2]
            r == RequestMeetingResult(msg)
            aligned == /\ IsPayment(msg.funds)
                       /\ LocalDay(start_time) = LocalDay(end_time)
                       /\ TimeOfDay(start_time) % 60 = 0
                       /\ TimeOfDay(end_time) % 60 = 0
                       /\ now <= start_time
                       /\ TimeOfDay(start_time) < TimeOfDay(end_time)
            free == \A slot \in Slots(calendar) :
                        ~Overlap(MeetingAt(calendar, slot),
                                 [start_time |-> start_time, end_time |-> end_time])
        IN  aligned
            => /\ (/\ TimeOfDay(start_time) = DailyStartTime
                   /\ TimeOfDay(end_time) = DailyEndTime
                   /\ AmountPaid(msg.funds) =
                        DurationMinutes(start_time, end_time)
                          * config.price_per_minute
                   /\ free)
                  => r.err = "Ok"
               /\ TimeOfDay(start_time) = DailyStartTime - 60
                  => r.err = "StartTimeDoesNotFallWithinCalendarBounds"
               /\ (/\ TimeOfDay(start_time) >= DailyStartTime
                   /\ TimeOfDay(end_time) = DailyEndTime + 60)
                  => r.err = "EndTimeDoesNotFallWithinCalendarBounds"
    /\ \A slot \in Slots(calendar) :
        LET m == MeetingAt(calendar, slot)
        IN  /\ DailyStartTime <= TimeOfDay(m.start_time)
            /\ TimeOfDay(m.start_time) < TimeOfDay(m.end_time)
            /\ TimeOfDay(m.end_time) <= DailyEndTime

\* a Meeting that fills the whole window is stored, and requests that leave
\* the window by a minute at either end are refused for that reason
C9_Witness ==
    /\ \E slot \in Slots(calendar) :
        /\ TimeOfDay(MeetingAt(calendar, slot).start_time) = DailyStartTime
        /\ TimeOfDay(MeetingAt(calendar, slot).end_time) = DailyEndTime
    /\ \E early, late \in RequestMeetingMsgs :
        /\ RequestMeetingResult(early).err =
             "StartTimeDoesNotFallWithinCalendarBounds"
        /\ RequestMeetingResult(late).err =
             "EndTimeDoesNotFallWithinCalendarBounds"

(***************************************************************************)
(* C10.  The future-start check refuses with StartTimeMustBeInFuture       *)
(* exactly when now > start_time: a request that reaches the check (its    *)
(* payment is in order, both instants are on one local day and on minute   *)
(* boundaries) is refused by it iff now > start_time; with                 *)
(* now = start_time it is accepted when every other validation passes; so  *)
(* every Meeting is stored with start_time >= now.                         *)
(***************************************************************************)
C10_FutureStart ==
    \A msg \in RequestMeetingMsgs :
        LET start_time == msg.slot[1]
            end_time == msg.slot[2]
            r == RequestMeetingResult(msg)
            reaches == /\ IsPayment(msg.funds)
                       /\ LocalDay(start_time) = LocalDay(end_time)
                       /\ TimeOfDay(start_time) % 60 = 0
                       /\ TimeOfDay(end_time) % 60 = 0
            free == \A slot \in Slots(calendar) :
                        ~Overlap(MeetingAt(calendar, slot),
                                 [start_time |-> start_time, end_time |-> end_time])
        IN  /\ r.err = "StartTimeMustBeInFuture" => now > start_time
            /\ reaches => (r.err = "StartTimeMustBeInFuture" <=> now > start_time)
            /\ (/\ now = start_time
                /\ PassesTimeValidation(start_time, end_time)
                /\ IsPayment(msg.funds)
                /\ AmountPaid(msg.funds) =
                     DurationMinutes(start_time, end_time) * config.price_per_minute
                /\ free)
               => r.err = "Ok"
            /\ r.err = "Ok" => start_time >= now

\* at one block time a request that starts at that very instant is accepted
\* and a request that starts earlier is refused as not in the future
C10_Witness ==
    \E msg, past \in RequestMeetingMsgs :
        /\ msg.slot[1] = now
        /\ RequestMeetingResult(msg).err = "Ok"
        /\ past.slot[1] < now
        /\ RequestMeetingResult(past).err = "StartTimeMustBeInFuture"

(***************************************************************************)
(* C11.  The error of request_meeting is that of the earliest failing      *)
(* step.  The steps of a request, in the order of the specification, and   *)
(* whether the request fails each of them.                                 *)
(***************************************************************************)
\* the collision predicate of the specification, against the stored Meetings
\* of the local day of the request
ConflictsWithStored(start_time, end_time) ==
    \E slot \in Slots(calendar) :
        LET m == MeetingAt(calendar, slot)
        IN  /\ LocalDay(m.start_time) = LocalDay(start_time)
            /\ \/ m.start_time <= start_time /\ start_time < m.end_time
               \/ m.start_time < end_time /\ end_time <= m.end_time

\* the validations a request fails, as the errors they are reported with
FailedValidations(msg) ==
    LET start_time == msg.slot[1]
        end_time == msg.slot[2]
    IN  {e \in {"StartAndEndTimeNotOnSameDay",
                "StartTimeNotRoundedToNearestMinute",
                "EndTimeNotRoundedToNearestMinute",
                "StartTimeMustBeInFuture",
                "EndTimeMustBeAfterStartTime",
                "StartTimeDoesNotFallWithinCalendarBounds",
                "EndTimeDoesNotFallWithinCalendarBounds",
                "InvalidStakeAmountSent",
                "MeetingConflictExists"} :
          CASE e = "StartAndEndTimeNotOnSameDay" ->
                 LocalDay(start_time) # LocalDay(end_time)
            [] e = "StartTimeNotRoundedToNearestMinute" ->
                 TimeOfDay(start_time) % 60 # 0
            [] e = "EndTimeNotRoundedToNearestMinute" ->
                 TimeOfDay(end_time) % 60 # 0
            [] e = "StartTimeMustBeInFuture" -> now > start_time
            [] e = "EndTimeMustBeAfterStartTime" ->
                 TimeOfDay(start_time) >= TimeOfDay(end_time)
            [] e = "StartTimeDoesNotFallWithinCalendarBounds" ->
                 \/ TimeOfDay(start_time) < DailyStartTime
                 \/ TimeOfDay(start_time) > DailyEndTime
            [] e = "EndTimeDoesNotFallWithinCalendarBounds" ->
                 \/ TimeOfDay(end_time) < DailyStartTime
                 \/ TimeOfDay(end_time) > DailyEndTime
            [] e = "InvalidStakeAmountSent" ->
                 AmountPaid(msg.funds) #
                   DurationMinutes(start_time, end_time) * config.price_per_minute
            [] e = "MeetingConflictExists" ->
                 ConflictsWithStored(start_time, end_time)}

\* the order of the steps
StepOrder ==
    << "StartAndEndTimeNotOnSameDay",
       "StartTimeNotRoundedToNearestMinute",
       "EndTimeNotRoundedToNearestMinute",
       "StartTimeMustBeInFuture",
       "EndTimeMustBeAfterStartTime",
       "StartTimeDoesNotFallWithinCalendarBounds",
       "EndTimeDoesNotFallWithinCalendarBounds",
       "InvalidStakeAmountSent",
       "MeetingConflictExists" >>

TimeErrors == {StepOrder[i] : i \in 1..7}
PaymentErrors == {"NoFunds", "MissingDenom", "MultipleDenoms"}

\* the error of the earliest failed step, "Ok" when no step fails
EarliestFailure(failed) ==
    IF failed = {} THEN "Ok"
    ELSE StepOrder[CHOOSE i \in 1..Len(StepOrder) :
                     /\ StepOrder[i] \in failed
                     /\ \A j \in 1..(i - 1) : StepOrder[j] \notin failed]

\* C11 as claimed: the answer is the error of the earliest failed step of
\* the list, and a request that fails a time validation is never answered
\* with a payment-related error.
C11_AsClaimed ==
    \A msg \in RequestMeetingMsgs :
        LET r == RequestMeetingResult(msg)
            failed == FailedValidations(msg)
        IN  /\ r.err = EarliestFailure(failed)
            /\ failed \cap TimeErrors # {}
               => r.err \notin PaymentErrors \cup {"InvalidStakeAmountSent"}

\* C11, amended.  The payment is looked at first: unless it is exactly one
\* non-zero coin of the configured unit the answer is a payment error
\* (NoFunds, MissingDenom, MultipleDenoms), also for a request that fails a
\* time validation.  Otherwise the answer is the error of the earliest
\* failed step in the order of the list, and InvalidStakeAmountSent is not
\* reported for a request that fails a time validation.
C11_EarliestFailureWins ==
    \A msg \in RequestMeetingMsgs :
        LET r == RequestMeetingResult(msg)
            failed == FailedValidations(msg)
        IN  IF IsPayment(msg.funds)
              THEN /\ r.err = EarliestFailure(failed)
                   /\ failed \cap TimeErrors # {}
                      => r.err # "InvalidStakeAmountSent"
              ELSE r.err \in PaymentErrors

\* with a Meeting stored, one request fails three steps and is answered
\* with the earliest, one is wrongly paid for a taken slot and is answered
\* InvalidStakeAmountSent, and one without payment that starts in the past
\* is answered NoFunds
C11_Witness ==
    /\ last.tag = "request_meeting"
    /\ \E msg \in RequestMeetingMsgs :
        /\ IsPayment(msg.funds)
        /\ Cardinality(FailedValidations(msg) \cap TimeErrors) >= 3
        /\ RequestMeetingResult(msg).err = EarliestFailure(FailedValidations(msg))
    /\ \E msg \in RequestMeetingMsgs :
        /\ FailedValidations(msg) = {"InvalidStakeAmountSent", "MeetingConflictExists"}
        /\ RequestMeetingResult(msg).err = "InvalidStakeAmountSent"
    /\ \E msg \in RequestMeetingMsgs :
        /\ "StartTimeMustBeInFuture" \in FailedValidations(msg)
        /\ RequestMeetingResult(msg).err = "NoFunds"

(***************************************************************************)
(* C12.  Every Meeting is stored under the key that is the absolute        *)
(* instant of local midnight of its local date, so for every key k and     *)
(* every Meeting m of that bucket k <= m.start_time < m.end_time < k + 1   *)
(* day.  The key that request_meeting computes is the local midnight read  *)
(* as if it were UTC: it is off by utc_offset.                             *)
(***************************************************************************)
C12_KeyIsLocalMidnight ==
    \A slot \in Slots(calendar) :
        LET k == slot[1]
            m == MeetingAt(calendar, slot)
        IN  /\ k = LocalDay(m.start_time) * (24 * 60 * 60) - config.utc_offset
            /\ k <= m.start_time
            /\ m.start_time < m.end_time
            /\ m.end_time < k + 24 * 60 * 60

(***************************************************************************)
(* C13.  A Day Bucket only grows: across every step each bucket keeps its  *)
(* key, every Meeting keeps its index, its start_time, its end_time and    *)
(* its requester, and the only change to a stored Meeting is that its      *)
(* amount_staked goes from the booked amount to zero, where it stays.      *)
(***************************************************************************)
AppendOnlyStep ==
    \A slot \in Slots(calendar) :
        /\ slot \in Slots(calendar')
        /\ LET old == MeetingAt(calendar, slot)
               new == MeetingAt(calendar', slot)
           IN  /\ new.start_time = old.start_time
               /\ new.end_time = old.end_time
               /\ new.requester = old.requester
               /\ \/ new.amount_staked = old.amount_staked
                  \/ old.amount_staked > 0 /\ new.amount_staked = 0

C13_AppendOnly == [][AppendOnlyStep]_vars

\* a Meeting was appended behind one whose stake is already resolved, and
\* the resolved one still sits at index 0
C13_Witness ==
    /\ last.tag = "request_meeting"
    /\ \E k \in DOMAIN calendar :
         /\ Len(calendar[k]) = 2
         /\ <<k, 0>> \in resolved
         /\ calendar[k][1].amount_staked = 0
         /\ calendar[k][2].amount_staked > 0

(***************************************************************************)
(* C14.  A request that passes every time validation and the payment check *)
(* is refused with MeetingConflictExists exactly when its interval         *)
(* [start, end) meets a Meeting [s, e) of the same Day Bucket with         *)
(* (s <= start < e) or (s < end <= e), and is accepted otherwise: a        *)
(* request back to back with the stored Meetings is accepted, a request    *)
(* strictly inside a stored Meeting is refused.                            *)
(***************************************************************************)
SameDayMeetings(start_time) ==
    {slot \in Slots(calendar) :
        LocalDay(MeetingAt(calendar, slot).start_time) = LocalDay(start_time)}

CollisionPredicate(m, start_time, end_time) ==
    \/ m.start_time <= start_time /\ start_time < m.end_time
    \/ m.start_time < end_time /\ end_time <= m.end_time

BackToBack(m, start_time, end_time) ==
    end_time = m.start_time \/ start_time = m.end_time

C14_ConflictIffPredicate ==
    \A msg \in RequestMeetingMsgs :
        LET r == RequestMeetingResult(msg)
            start_time == msg.slot[1]
            end_time == msg.slot[2]
            stored == {MeetingAt(calendar, slot) :
                         slot \in SameDayMeetings(start_time)}
        IN  /\ PassesTimeValidation(start_time, end_time)
            /\ IsPayment(msg.funds)
            /\ AmountPaid(msg.funds)
                 = DurationMinutes(start_time, end_time) * config.price_per_minute
            => /\ r.err \in {"Ok", "MeetingConflictExists"}
               /\ r.err = "MeetingConflictExists"
                    <=> \E m \in stored :
                            CollisionPredicate(m, start_time, end_time)
               /\ (\E m \in stored :
                      m.start_time < start_time /\ end_time < m.end_time)
                    => r.err = "MeetingConflictExists"
               /\ (\A m \in stored :
                      \/ BackToBack(m, start_time, end_time)
                      \/ end_time < m.start_time
                      \/ m.end_time < start_time)
                    => r.err = "Ok"

\* beside a stored Meeting one request back to back with it is accepted and
\* one that begins with it and ends after it is refused
C14_Witness ==
    /\ last.tag = "request_meeting"
    /\ \E slot \in Slots(calendar) :
         LET m == MeetingAt(calendar, slot)
         IN  /\ \E msg \in RequestMeetingMsgs :
                   /\ msg.slot[1] = m.end_time
                   /\ RequestMeetingResult(msg).err = "Ok"
             /\ \E msg \in RequestMeetingMsgs :
                   /\ msg.slot[1] = m.start_time
                   /\ msg.slot[2] > m.end_time
                   /\ IsPayment(msg.funds)
                   /\ RequestMeetingResult(msg).err = "MeetingConflictExists"

(***************************************************************************)
(* C15.  PartialSlash of a Meeting with stake S and D = (end_time -        *)
(* start_time) / 60 minutes, m minutes late: m > D is refused with         *)
(* MinutesLateCannotExceedDurationOfMeeting; otherwise the authority is    *)
(* sent floor(S * m / D) and the requester the rest, so m = 0 refunds the  *)
(* whole stake and m = D slashes it whole; S = 300, D = 30, m = 10 sends   *)
(* 200 to the requester and 100 to the authority.                          *)
(***************************************************************************)
\* what PartialSlash is claimed to answer for a finished Meeting with a stake
PartialSlashAsClaimed(r, m, requester, minutes_late) ==
    LET S == m.amount_staked
        D == (m.end_time - m.start_time) \div 60
        slashed == (S * minutes_late) \div D
    IN  IF minutes_late > D
            THEN r.err = "MinutesLateCannotExceedDurationOfMeeting"
        ELSE /\ r.err = "Ok"
             /\ Len(r.msgs) = 2
             /\ r.msgs[1].to_address = requester
             /\ r.msgs[1].amount = S - slashed
             /\ r.msgs[2].to_address = admin
             /\ r.msgs[2].amount = slashed
             /\ minutes_late = 0 => r.msgs[1].amount = S /\ r.msgs[2].amount = 0
             /\ minutes_late = D => r.msgs[1].amount = 0 /\ r.msgs[2].amount = S

\* a bucket with one Meeting of the given stake and duration, resolved by
\* the authority one second after its end
PartialSlashOf(stake, duration, minutes_late) ==
    LET m == Meeting(0, duration * 60, "alice", stake)
    IN  handle_stake(config, admin, [k \in {0} |-> <<m>>], m.end_time + 1,
                     admin, 0, 0, PartialSlash(minutes_late))

C15_PartialSlashFormula ==
    /\ \A msg \in ResolveStakeMsgs :
         LET slot == <<msg.day_datetime, msg.meeting_index>>
         IN  /\ msg.stake_action.kind = "PartialSlash"
             /\ msg.sender = admin
             /\ slot \in Slots(calendar)
             /\ now > MeetingAt(calendar, slot).end_time
             /\ MeetingAt(calendar, slot).amount_staked > 0
             => PartialSlashAsClaimed(ResolveStakeResult(msg),
                                      MeetingAt(calendar, slot),
                                      MeetingAt(calendar, slot).requester,
                                      msg.stake_action.minutes_late)
    /\ \A stake \in 1..(2 * MaxAmount), duration \in 1..WindowMinutes,
          minutes_late \in 0..(WindowMinutes + 1) :
         PartialSlashAsClaimed(PartialSlashOf(stake, duration, minutes_late),
                               Meeting(0, duration * 60, "alice", stake),
                               "alice", minutes_late)
    /\ LET r == PartialSlashOf(300, 30, 10)
       IN  /\ r.err = "Ok"
           /\ r.msgs[1].to_address = "alice" /\ r.msgs[1].amount = 200
           /\ r.msgs[2].to_address = admin /\ r.msgs[2].amount = 100

\* a partial slash has split a stake between the requester and the
\* authority, and another finished Meeting cannot be slashed for more
\* minutes than it lasted
C15_Witness ==
    /\ last.tag = "partial_slash"
    /\ last.msgs[1].amount > 0
    /\ last.msgs[2].amount > 0
    /\ \E msg \in ResolveStakeMsgs :
         /\ msg.stake_action.kind = "PartialSlash"
         /\ ResolveStakeResult(msg).err
              = "MinutesLateCannotExceedDurationOfMeeting"

(***************************************************************************)
(* C16.  Return sends exactly one payout, the full stake, to the requester *)
(* stored in the Meeting (not to the caller); FullSlash sends exactly one  *)
(* payout, the full stake, to the authority; after either the stake of the *)
(* Meeting is zero.                                                        *)
(***************************************************************************)
C16_WholeStakeToOneParty ==
    \A msg \in ResolveStakeMsgs :
        LET slot == <<msg.day_datetime, msg.meeting_index>>
            r == ResolveStakeResult(msg)
        IN  /\ msg.stake_action.kind \in {"Return", "FullSlash"}
            /\ msg.sender = admin
            /\ slot \in Slots(calendar)
            /\ now > MeetingAt(calendar, slot).end_time
            /\ MeetingAt(calendar, slot).amount_staked > 0
            => /\ r.err = "Ok"
               /\ Len(r.msgs) = 1
               /\ r.msgs[1].amount = MeetingAt(calendar, slot).amount_staked
               /\ r.msgs[1].to_address =
                    IF msg.stake_action.kind = "Return"
                    THEN MeetingAt(calendar, slot).requester
                    ELSE admin
               /\ MeetingAt(r.calendar, slot).amount_staked = 0

\* a stake booked by somebody else than the authority was returned to that
\* requester, and a full slash of another such stake goes to the authority
C16_Witness ==
    /\ last.tag = "return_stake"
    /\ last.msgs[1].to_address # admin
    /\ \E msg \in ResolveStakeMsgs :
         LET slot == <<msg.day_datetime, msg.meeting_index>>
             r == ResolveStakeResult(msg)
         IN  /\ msg.stake_action.kind = "FullSlash"
             /\ r.err = "Ok"
             /\ MeetingAt(calendar, slot).requester # admin
             /\ r.msgs[1].to_address = admin

(***************************************************************************)
(* C17.  With price_per_minute = 0 a request that passes every time        *)
(* validation, has no conflict and pays nothing is accepted and recorded   *)
(* with amount_staked = 0; and a request is recorded with a zero stake     *)
(* only when price_per_minute is 0.  must_pay refuses a payment of nothing *)
(* with NoFunds, so with price 0 no request is accepted at all.            *)
(***************************************************************************)
PaysNothing(funds) == funds = <<>> \/ funds = <<Coin(0, config.denom)>>

C17_ZeroPriceBooksForFree ==
    \A msg \in RequestMeetingMsgs :
        LET r == RequestMeetingResult(msg)
            start_time == msg.slot[1]
            end_time == msg.slot[2]
        IN  /\ /\ config.price_per_minute = 0
               /\ PassesTimeValidation(start_time, end_time)
               /\ ~ConflictsWithStored(start_time, end_time)
               /\ PaysNothing(msg.funds)
               => /\ r.err = "Ok"
                  /\ \E slot \in Slots(r.calendar) :
                        /\ slot \notin Slots(calendar)
                        /\ MeetingAt(r.calendar, slot).start_time = start_time
                        /\ MeetingAt(r.calendar, slot).amount_staked = 0
            /\ r.err = "Ok" /\ AmountPaid(msg.funds) = 0
               => config.price_per_minute = 0

(***************************************************************************)
(* C18.  Escrowed funds are conserved: the amounts paid with the accepted  *)
(* requests, minus the amounts of all payouts of successful resolutions,   *)
(* equal the sum of amount_staked over the stored Meetings, also when the  *)
(* price changed between a booking and its resolution; the payouts of a    *)
(* Meeting total what was paid when it was booked, not an amount           *)
(* recomputed from the current price.                                      *)
(***************************************************************************)
RECURSIVE Sum(_, _)
Sum(f, S) ==
    IF S = {} THEN 0
    ELSE LET x == CHOOSE y \in S : TRUE IN f[x] + Sum(f, S \ {x})

TotalPaid == Sum([s \in DOMAIN ledger |-> ledger[s].paid], DOMAIN ledger)
TotalPaidOut == Sum([s \in DOMAIN ledger |-> ledger[s].paid_out], DOMAIN ledger)
TotalStaked ==
    Sum([s \in Slots(calendar) |-> MeetingAt(calendar, s).amount_staked],
        Slots(calendar))

C18_EscrowConserved ==
    /\ DOMAIN ledger = Slots(calendar)
    /\ TotalPaid - TotalPaidOut = TotalStaked
    /\ \A slot \in Slots(calendar) :
         /\ ledger[slot].paid - ledger[slot].paid_out
              = MeetingAt(calendar, slot).amount_staked
         /\ ledger[slot].paid_out = IF slot \in resolved THEN ledger[slot].paid ELSE 0
    /\ \A msg \in ResolveStakeMsgs :
         LET r == ResolveStakeResult(msg)
         IN  r.err = "Ok"
             => TotalSent(r.msgs)
                  = ledger[<<msg.day_datetime, msg.meeting_index>>].paid

\* a stake was paid out after the price had been changed to one under which
\* the Meeting would have cost nothing, while another stake is still held
C18_Witness ==
    /\ last.tag \in ResolveTags
    /\ \E slot \in resolved :
         /\ ledger[slot].paid_out = ledger[slot].paid
         /\ ledger[slot].paid > 0
         /\ ledger[slot].paid
              # config.price_per_minute
                  * meeting_duration_in_minutes(MeetingAt(calendar, slot))
    /\ \E slot \in Slots(calendar) : MeetingAt(calendar, slot).amount_staked > 0

(***************************************************************************)
(* C19.  Every payout of a resolution is denominated in the currency unit  *)
(* in which the stake of that Meeting was paid at booking, also when the   *)
(* authority changed the configured unit in between.  handle_stake builds  *)
(* every payout with the unit of the Configuration it loads, and a Meeting *)
(* does not record the unit it was paid in.                                *)
(***************************************************************************)
C19_PayoutInUnitOfBooking ==
    \A msg \in ResolveStakeMsgs :
        LET r == ResolveStakeResult(msg)
            slot == <<msg.day_datetime, msg.meeting_index>>
        IN  r.err = "Ok"
            => \A i \in 1..Len(r.msgs) : r.msgs[i].denom = ledger[slot].denom

(***************************************************************************)
(* C20.  Every stored Meeting has end_time - start_time equal to a         *)
(* positive multiple of 60 seconds and less than a day, so the duration in *)
(* minutes that the PartialSlash arm divides by is at least 1 and the      *)
(* ratio never divides by zero.                                            *)
(***************************************************************************)
C20_DurationAtLeastOneMinute ==
    /\ \A slot \in Slots(calendar) :
         LET m == MeetingAt(calendar, slot)
         IN  /\ m.end_time - m.start_time > 0
             /\ (m.end_time - m.start_time) % 60 = 0
             /\ m.end_time - m.start_time < 24 * 60 * 60
             /\ meeting_duration_in_minutes(m) >= 1
    /\ \A msg \in ResolveStakeMsgs :
         ResolveStakeResult(msg).err # "DivideByZero"

\* a Meeting of one minute, the shortest there is, was slashed for a part
\* of its time
C20_Witness ==
    /\ last.tag = "partial_slash"
    /\ \E slot \in resolved :
         LET m == MeetingAt(calendar, slot)
         IN  /\ m.end_time - m.start_time = 60
             /\ ledger[slot].paid_out > 0

====
